---- MODULE Spec2Model ----
\* A model of the solidbench-jena benchmark scripts:
\*   scripts/query.py    load_queries, execute_query, save_query_data, run_queries
\*   scripts/summary.py  generate_key, generate_summary_readme
\* Three specifications share the module: Spec (run_queries over a mapping of
\* Query Units), SpecLoad (load_queries over a directory of template files) and
\* SpecSummary (generate_summary_readme over a directory of artifacts).
EXTENDS Integers, Sequences, FiniteSets, TLC

VARIABLES
    \* ---- run_queries / save_query_data (query.py:88-142)
    queries,        \* the mapping handed to run_queries, in insertion order
    pc,             \* position of the control flow inside run_queries
    i,              \* 1-based index of the unit the for loop is at
    result,         \* local `result` of run_queries
    result_error,   \* local `result_error` of run_queries (None or an exception)
    metadata,       \* local `metadata` of save_query_data
    clock,          \* wall clock read by datetime.now
    all_start,      \* local `all_start`
    start_time,     \* local `start_time`
    end_time,       \* local `end_time`
    disk,           \* the output directory: path -> file
    raised,         \* what ended the run early ("" while it is running)
    events,         \* history: the steps taken so far, in order
    returned,       \* history: what execute_query did for the current unit
    latencies,      \* history: duration of each request/response exchange, in call order
    \* ---- load_queries (query.py:52-67)
    directory,      \* the template directory: file name -> file content
    pending,        \* file names path.iterdir() has not yielded yet
    queries_by_id,  \* the dict under construction, in insertion order
    loaded,         \* history: per visited file, the entries it stored
    load_pc,        \* position of the control flow inside load_queries
    \* ---- generate_summary_readme (summary.py:21-37)
    source,         \* the results directory: set of file names
    listing,        \* the order source.iterdir() yields the names in
    ordered,        \* sorted(source.iterdir(), key=generate_key)
    markdown_lines, \* the rows appended so far (ids of the rendered artifacts)
    sum_pos,        \* position of the for loop over `ordered`
    sum_pc,         \* position of the control flow inside generate_summary_readme
    target          \* the README file: <<>> until written, then <<rows>>

runVars == <<queries, pc, i, result, result_error, metadata, clock, all_start,
             start_time, end_time, disk, raised, events, returned, latencies>>
loadVars == <<directory, pending, queries_by_id, loaded, load_pc>>
sumVars == <<source, listing, ordered, markdown_lines, sum_pos, sum_pc, target>>
vars == <<runVars, loadVars, sumVars>>

\* ------------------------------------------------------------------ bounds
MaxUnits == 2
MaxBindings == 2
MaxLatency == 2

\* ------------------------------------------------------------ Python values
\* Optional values: None is <<>>, a present value x is <<x>>.
None == <<>>
Some(x) == <<x>>

\* A value json.loads can return. Every value has the same fields so that any
\* two can be compared; `t` tells which field carries the value.
JNull == [t |-> "null", s |-> "", n |-> 0, a |-> <<>>, o |-> <<>>]
JNum(n) == [t |-> "number", s |-> "", n |-> n, a |-> <<>>, o |-> <<>>]
JBool(b) == [t |-> "boolean", s |-> "", n |-> IF b THEN 1 ELSE 0, a |-> <<>>, o |-> <<>>]
JStr(s) == [t |-> "string", s |-> s, n |-> 0, a |-> <<>>, o |-> <<>>]
JArr(items) == [t |-> "array", s |-> "", n |-> 0, a |-> items, o |-> <<>>]
JObj(members) == [t |-> "object", s |-> "", n |-> 0, a |-> <<>>, o |-> members]
Member(k, v) == [k |-> k, v |-> v]

\* The outcome of evaluating a Python expression: a value or a raised exception.
Val(v) == [exc |-> "", v |-> v]
Raise(e) == [exc |-> e, v |-> 0]

\* The str values of the model's payloads, with len() and the substring test
\* tabulated for them.
StrLen(s) == CASE s = "1" -> 1 [] s = "ok" -> 2
StrContains(s, sub) == CASE s \in {"1", "ok"} -> s = sub

\* `key in x` for a str key.
PyIn(key, x) ==
    CASE x.t = "object" -> Val(\E m \in 1..Len(x.o) : x.o[m].k = key)
      [] x.t = "array" -> Val(\E m \in 1..Len(x.a) : x.a[m] = JStr(key))
      [] x.t = "string" -> Val(StrContains(x.s, key))
      [] OTHER -> Raise("TypeError")

\* `x[key]` for a str key.
PyGetItem(x, key) ==
    CASE x.t = "object" ->
            IF \E m \in 1..Len(x.o) : x.o[m].k = key
            THEN Val(x.o[CHOOSE m \in 1..Len(x.o) : x.o[m].k = key].v)
            ELSE Raise("KeyError")
      [] OTHER -> Raise("TypeError")

\* `len(x)`.
PyLen(x) ==
    CASE x.t = "object" -> Val(Len(x.o))
      [] x.t = "array" -> Val(Len(x.a))
      [] x.t = "string" -> Val(StrLen(x.s))
      [] OTHER -> Raise("TypeError")

\* ------------------------------------------------------------ execute_query
Rows(n) == [k \in 1..n |-> JObj(<<Member("x", JStr("1"))>>)]
Select(n) == JObj(<<Member("results", JObj(<<Member("bindings", JArr(Rows(n)))>>))>>)

\* What the transport hands back: an exception raised by urlopen, or a response
\* body. A body is described by the value Python's json.loads gives for it
\* after strip(), or by the stripped text when json.loads rejects it.
TransportError(msg) == [kind |-> "transport", msg |-> msg, json |-> JNull]
JsonBody(v) == [kind |-> "json", msg |-> "", json |-> v]
TextBody(stripped) == [kind |-> "text", msg |-> stripped, json |-> JNull]

Responses ==
    {JsonBody(Select(n)) : n \in 0..MaxBindings}
    \cup {JsonBody(JObj(<<>>)),
          JsonBody(JObj(<<Member("boolean", JBool(TRUE))>>)),
          JsonBody(JObj(<<Member("results", JObj(<<>>))>>)),
          JsonBody(JArr(<<>>)),
          JsonBody(JNum(5)),
          JsonBody(JStr("ok")),
          JsonBody(JNull),
          TextBody("Error 400: Parse error"),
          TextBody(""),
          TransportError("<urlopen error [Errno 111] Connection refused>")}

\* execute_query: returns the parsed payload, or raises. An exception object is
\* modelled by its str().
execute_query(response) ==
    CASE response.kind = "transport" -> [exc |-> Some(response.msg), v |-> JNull]
      [] response.kind = "json" -> [exc |-> None, v |-> response.json]
      [] OTHER -> [exc |-> Some(response.msg), v |-> JNull]

\* ---------------------------------------------------------- save_query_data
\* bool(error) for `error: Exception | None`: an exception object is truthy
\* whatever its message.
Truthy(error) == error /= None

MetaErrorEmptyIsNone(error) == IF error /= None /\ error[1] /= "" THEN Some(error[1]) ELSE None
MetaError(error) == IF Truthy(error) THEN Some(error[1]) ELSE None

MetaSuccess(error) == IF Truthy(error) THEN FALSE ELSE TRUE

\* len(result["results"]["bindings"]) if "results" in result else 0
MetaResults(res) ==
    LET has == PyIn("results", res) IN
    IF has.exc /= "" THEN Raise(has.exc)
    ELSE IF ~has.v THEN Val(0)
    ELSE LET r1 == PyGetItem(res, "results") IN
         IF r1.exc /= "" THEN Raise(r1.exc)
         ELSE LET r2 == PyGetItem(r1.v, "bindings") IN
              IF r2.exc /= "" THEN Raise(r2.exc)
              ELSE PyLen(r2.v)

NoMetadata == [time_seconds |-> 0, error |-> None, success |-> FALSE, results |-> 0]

BuildMetadata(res, error, time) ==
    [time_seconds |-> time,
     error |-> MetaError(error),
     success |-> MetaSuccess(error),
     results |-> MetaResults(res).v]

\* The three paths of a unit; a path is <<id, kind>>.
query_path(id) == <<id, "query">>
result_path(id) == <<id, "result">>
metadata_pathShared(id) == <<1, "meta">>
metadata_path(id) == <<id, "meta">>

Kinds == {"query", "result", "meta"}
Paths == (1..MaxUnits) \X Kinds

\* A file: absent, empty (opened for writing, nothing written), or written by
\* run number `gen` (0: an earlier run, 1: this run).
Absent == [state |-> "absent", gen |-> 0, text |-> 0, json |-> JNull, meta |-> NoMetadata]
Empty(g) == [state |-> "empty", gen |-> g, text |-> 0, json |-> JNull, meta |-> NoMetadata]
QueryFile(g, q) == [state |-> "written", gen |-> g, text |-> q, json |-> JNull, meta |-> NoMetadata]
ResultFile(g, r) == [state |-> "written", gen |-> g, text |-> 0, json |-> r, meta |-> NoMetadata]
MetaFile(g, m) == [state |-> "written", gen |-> g, text |-> 0, json |-> JNull, meta |-> m]

\* `with open(p, "w") as f: f.write(content)`: open may raise leaving the file
\* as it was; open truncates, and the write may raise after that.
WriteOutcomes == {"ok", "open_raises", "write_raises"}
Written(d, p, content, how) ==
    CASE how = "ok" -> [d EXCEPT ![p] = content]
      [] how = "write_raises" -> [d EXCEPT ![p] = Empty(1)]
      [] OTHER -> d

\* -------------------------------------------------------------- run_queries
Unit(n) == [id |-> n, query |-> n]

\* result = {} in the except branch (query.py:129)
ExceptResultStale(previous) == previous
ExceptResult(previous) == JObj(<<>>)

\* time=(end_time - start_time) (query.py:138)
TimeArg(start, end) == end - start

\* the for loop moves to the next item whatever the outcome was
NextIndexRetry(idx, error) == IF error /= None THEN idx ELSE idx + 1
NextIndex(idx, error) == idx + 1

\* The output directory before the run: empty, or holding the complete Run
\* Records an earlier run left for every unit.
EmptyDisk == [p \in Paths |-> Absent]
PriorDisk == [p \in Paths |->
                CASE p[2] = "query" -> QueryFile(0, Unit(p[1]).query)
                  [] p[2] = "result" -> ResultFile(0, Select(1))
                  [] OTHER -> MetaFile(0, BuildMetadata(Select(1), None, 1))]

InitLoadIdle ==
    /\ directory = <<>>
    /\ pending = {}
    /\ queries_by_id = <<>>
    /\ loaded = <<>>
    /\ load_pc = "idle"

InitSumIdle ==
    /\ source = {}
    /\ listing = <<>>
    /\ ordered = <<>>
    /\ markdown_lines = <<>>
    /\ sum_pos = 0
    /\ sum_pc = "idle"
    /\ target = <<>>

InitRunIdle ==
    /\ queries = <<>>
    /\ pc = "idle"
    /\ i = 0
    /\ result = JNull
    /\ result_error = None
    /\ metadata = NoMetadata
    /\ clock = 0
    /\ all_start = 0
    /\ start_time = 0
    /\ end_time = 0
    /\ disk = EmptyDisk
    /\ raised = ""
    /\ events = <<>>
    /\ returned = "none"
    /\ latencies = <<>>

Init ==
    /\ \E n \in 0..MaxUnits : queries = [k \in 1..n |-> Unit(k)]
    /\ pc = "for"
    /\ i = 0
    /\ result = JNull
    /\ result_error = None
    /\ metadata = NoMetadata
    /\ clock = 0
    /\ all_start = 0
    /\ start_time = 0
    /\ end_time = 0
    /\ disk \in {EmptyDisk, PriorDisk}
    /\ raised = ""
    /\ events = <<>>
    /\ returned = "none"
    /\ latencies = <<>>
    /\ InitLoadIdle
    /\ InitSumIdle

Running == raised = ""
id == queries[i].id
query == queries[i].query

\* for id, query in queries.items(): ... start_time = datetime.now(tz=UTC)
ForNext ==
    /\ Running /\ pc = "for"
    /\ NextIndex(i, result_error) <= Len(queries)
    /\ i' = NextIndex(i, result_error)
    /\ start_time' = clock
    /\ pc' = "try"
    /\ events' = Append(events, <<"start", queries[i'].id>>)
    /\ returned' = "none"
    /\ UNCHANGED <<queries, result, result_error, metadata, clock, all_start,
                   end_time, disk, raised, latencies>>
    /\ UNCHANGED <<loadVars, sumVars>>

\* the loop is exhausted: all_end, all_duration, the final log line
ForEnd ==
    /\ Running /\ pc = "for"
    /\ NextIndex(i, result_error) > Len(queries)
    /\ pc' = "done"
    /\ UNCHANGED <<queries, i, result, result_error, metadata, clock, all_start,
                   start_time, end_time, disk, raised, events, returned, latencies>>
    /\ UNCHANGED <<loadVars, sumVars>>

\* try: result = execute_query(endpoint, query); result_error = None
\* except Exception as ex: result = {}; result_error = ex
Execute ==
    /\ Running /\ pc = "try"
    /\ \E response \in Responses, d \in 1..MaxLatency :
        LET out == execute_query(response) IN
        /\ clock' = clock + d
        /\ latencies' = Append(latencies, d)
        /\ IF out.exc = None
           THEN /\ result' = out.v
                /\ result_error' = None
                /\ returned' = "payload"
           ELSE /\ result' = ExceptResult(result)
                /\ result_error' = out.exc
                /\ returned' = "raised"
    /\ pc' = "end_time"
    /\ events' = Append(events, <<"execute", id>>)
    /\ UNCHANGED <<queries, i, metadata, all_start, start_time, end_time, disk, raised>>
    /\ UNCHANGED <<loadVars, sumVars>>

\* end_time = datetime.now(tz=UTC)
StampEnd ==
    /\ Running /\ pc = "end_time"
    /\ end_time' = clock
    /\ pc' = "save"
    /\ events' = Append(events, <<"end", id>>)
    /\ UNCHANGED <<queries, i, result, result_error, metadata, clock, all_start,
                   start_time, disk, raised, returned, latencies>>
    /\ UNCHANGED <<loadVars, sumVars>>

\* save_query_data is entered and builds `metadata` (query.py:96-105); an
\* exception raised there is caught by nobody.
SaveMetadata ==
    /\ Running /\ pc = "save"
    /\ LET count == MetaResults(result) IN
       IF count.exc /= ""
       THEN /\ raised' = count.exc
            /\ UNCHANGED <<pc, metadata>>
       ELSE /\ metadata' = BuildMetadata(result, result_error,
                                         TimeArg(start_time, end_time))
            /\ pc' = "write_query"
            /\ UNCHANGED raised
    /\ UNCHANGED <<queries, i, result, result_error, clock, all_start, start_time,
                   end_time, disk, events, returned, latencies>>
    /\ UNCHANGED <<loadVars, sumVars>>

\* one `with open(...)` block of save_query_data; file I/O takes one tick
WriteStep(at, p, content, next) ==
    /\ Running /\ pc = at
    /\ \E how \in WriteOutcomes :
        /\ disk' = Written(disk, p, content, how)
        /\ IF how = "ok"
           THEN /\ pc' = next
                /\ UNCHANGED raised
                /\ events' = IF next = "for" THEN Append(events, <<"persist", id>>)
                             ELSE events
           ELSE /\ raised' = "OSError"
                /\ UNCHANGED <<pc, events>>
    /\ clock' = clock + 1
    /\ UNCHANGED <<queries, i, result, result_error, metadata, all_start,
                   start_time, end_time, returned, latencies>>
    /\ UNCHANGED <<loadVars, sumVars>>

WriteQuery == WriteStep("write_query", query_path(id), QueryFile(1, query), "write_result")
WriteResult == WriteStep("write_result", result_path(id), ResultFile(1, result), "write_meta")
WriteMetadata == WriteStep("write_meta", metadata_path(id), MetaFile(1, metadata), "for")

\* the process is killed between two steps
Crash ==
    /\ Running /\ pc /= "done"
    /\ raised' = "killed"
    /\ UNCHANGED <<queries, pc, i, result, result_error, metadata, clock, all_start,
                   start_time, end_time, disk, events, returned, latencies>>
    /\ UNCHANGED <<loadVars, sumVars>>

Next ==
    \/ ForNext
    \/ ForEnd
    \/ Execute
    \/ StampEnd
    \/ SaveMetadata
    \/ WriteQuery
    \/ WriteResult
    \/ WriteMetadata
    \/ Crash

Spec == Init /\ [][Next]_vars

\* =================================================== properties of run_queries
RunIds == 1..Len(queries)
OnDisk(p) == disk[p].state = "written"
Persisted(k) ==
    /\ disk[query_path(k)] = QueryFile(1, Unit(k).query)
    /\ OnDisk(result_path(k)) /\ disk[result_path(k)].gen = 1
    /\ OnDisk(metadata_path(k)) /\ disk[metadata_path(k)].gen = 1

\* The number of entries of payload.results.bindings when the payload has that
\* structure, and 0 for every other payload.
BindingsCount(p) ==
    IF /\ p.t = "object"
       /\ \E m \in 1..Len(p.o) : /\ p.o[m].k = "results"
                                 /\ p.o[m].v.t = "object"
                                 /\ \E b \in 1..Len(p.o[m].v.o) :
                                        /\ p.o[m].v.o[b].k = "bindings"
                                        /\ p.o[m].v.o[b].v.t = "array"
    THEN LET r == (CHOOSE m \in 1..Len(p.o) : p.o[m].k = "results")
             rs == p.o[r].v.o
             b == CHOOSE b \in 1..Len(rs) : rs[b].k = "bindings"
         IN Len(rs[b].v.a)
    ELSE 0

\* C1: whatever execute_query does for a unit (returns a payload, raises a
\* transport failure, raises on an unparseable body), the run is not aborted by
\* it: nothing but a persistence error or a kill ends the run early, and a run
\* that reaches its end has persisted one Run Record per unit, with
\* success = false for every unit whose request failed.
C1_FailureNeverAbortsRun ==
    /\ raised \in {"", "killed", "OSError"}
    /\ pc = "done" => \A k \in RunIds : Persisted(k)
    /\ (pc = "for" /\ i >= 1 /\ Running /\ returned = "raised")
          => /\ Persisted(i)
             /\ disk[metadata_path(i)].meta.success = FALSE

\* C2: every metadata artifact on disk satisfies success == (error is null),
\* and results == 0 whenever error is non-null.
C2_SuccessIffNoError ==
    \A p \in Paths :
        (p[2] = "meta" /\ OnDisk(p)) =>
            LET m == disk[p].meta IN
            /\ m.success = (m.error = None)
            /\ (m.error /= None => m.results = 0)

\* C2 witness: a metadata artifact of this run that records a failure whose
\* message is the empty string.
C2_Witness ==
    \E p \in Paths : /\ p[2] = "meta" /\ OnDisk(p) /\ disk[p].gen = 1
                     /\ disk[p].meta.error = Some("")
                     /\ disk[p].meta.success = FALSE

\* C3: for every payload execute_query returns, save_query_data records
\* results = the number of payload.results.bindings entries when the payload
\* has that structure and 0 otherwise, and the Run Record is persisted (no
\* exception leaves save_query_data because of the payload).
C3_ResultsCountedForEveryPayload ==
    returned = "payload" =>
        /\ raised \notin {"TypeError", "KeyError"}
        /\ pc \in {"write_query", "write_result", "write_meta"}
              => metadata.results = BindingsCount(result)
        /\ (pc = "for" /\ Running)
              => /\ Persisted(i)
                 /\ disk[metadata_path(i)].meta.results = BindingsCount(result)

\* The placeholder run_queries uses for `result` when the request failed is
\* the empty mapping; any other value is a populated result.
ResultPopulated(r) == r /= JObj(<<>>)
ErrorPopulated(e) == e /= None

\* C4 as stated: the outcome handed to save_query_data has exactly one of
\* {result, error} populated.
C4_ExactlyOnePopulated ==
    pc = "save" => (ResultPopulated(result) /= ErrorPopulated(result_error))

\* C4 as amended: never both; the error is populated exactly when
\* execute_query raised, and then the result is the empty mapping; neither is
\* populated only when execute_query returned the empty mapping itself.
C4_NeverBoth ==
    pc = "save" =>
        /\ ~(ResultPopulated(result) /\ ErrorPopulated(result_error))
        /\ ErrorPopulated(result_error) = (returned = "raised")
        /\ (~ResultPopulated(result) /\ ~ErrorPopulated(result_error))
              => returned = "payload"

\* C4 witness: a failed second unit is handed to save_query_data.
C4_Witness ==
    /\ pc = "save" /\ i = 2 /\ returned = "raised"
    /\ ErrorPopulated(result_error) /\ ~ResultPopulated(result)

\* The events of a complete run over the mapping, in order.
EventKinds == <<"start", "execute", "end", "persist">>
ExpectedEvent(j) == <<EventKinds[((j - 1) % 4) + 1], queries[((j - 1) \div 4) + 1].id>>

\* C9: units are dispatched once each, in the mapping's insertion order, each
\* with the steps start timestamp, executor call, end timestamp, persist in
\* that order, unit k persisted before unit k+1 starts (the events so far are
\* always a prefix of that one sequence, and all of it at the end of the run);
\* the recorded duration is the duration of the request/response exchange alone.
C9_DispatchedOnceInOrder ==
    /\ Len(events) <= 4 * Len(queries)
    /\ \A j \in 1..Len(events) : j <= 4 * Len(queries) => events[j] = ExpectedEvent(j)
    /\ pc = "done" => Len(events) = 4 * Len(queries)
    /\ \A k \in RunIds :
          (OnDisk(metadata_path(k)) /\ disk[metadata_path(k)].gen = 1)
              => /\ k <= Len(latencies)
                 /\ disk[metadata_path(k)].meta.time_seconds = latencies[k]

\* C9 witness: a run over two units ended, the first request having failed.
C9_Witness ==
    /\ pc = "done" /\ Len(queries) = 2 /\ Len(events) = 8
    /\ disk[metadata_path(1)].meta.success = FALSE
    /\ disk[metadata_path(2)].meta.time_seconds = 2

\* A unit's artifacts are all three present and from the same run, or all absent.
WellFormed(k) ==
    \/ \A kind \in Kinds : disk[<<k, kind>>].state = "absent"
    \/ \E g \in {0, 1} : \A kind \in Kinds :
          /\ disk[<<k, kind>>].state = "written"
          /\ disk[<<k, kind>>].gen = g

\* C10 as stated: however the run is interrupted, every unit id has its three
\* artifacts all present from one execution, or none.
C10_InterruptedRunWellFormed ==
    raised /= "" => \A k \in 1..MaxUnits : WellFormed(k)

\* C10 as amended: when the run is interrupted, every unit id other than the
\* one save_query_data was writing at that moment is well-formed.
C10_OnlyUnitBeingSavedTorn ==
    raised /= "" =>
        \A k \in 1..MaxUnits :
            \/ WellFormed(k)
            \/ (k = i /\ pc \in {"write_query", "write_result", "write_meta"})

\* C10 witness: a rerun killed after unit 2's query and result artifacts were
\* rewritten, its metadata artifact still the earlier run's; unit 1 is whole.
C10_Witness ==
    /\ raised = "killed" /\ i = 2 /\ pc = "write_meta"
    /\ disk[query_path(2)].gen = 1 /\ disk[metadata_path(2)].gen = 0
    /\ OnDisk(metadata_path(2)) /\ Persisted(1)

\* ================================================================ load_queries
\* A str is a sequence of one-character strings.
MaxChars == 7

SOLIDBENCH_QUERY_SEP == <<"\n", "\n">>
SOLIDBENCH_QUERY_EXT == <<".", "s", "p", "a", "r", "q", "l">>

Whitespace == {" ", "\t", "\n", "\r"}
Digits == <<"0", "1", "2", "3", "4", "5", "6", "7", "8", "9">>

SubStr(str, from, to) == [k \in 1..(to - from + 1) |-> str[from + k - 1]]

\* str.endswith(suffix), str.removesuffix(suffix)
EndsWith(str, suffix) ==
    /\ Len(str) >= Len(suffix)
    /\ SubStr(str, Len(str) - Len(suffix) + 1, Len(str)) = suffix
RemoveSuffix(str, suffix) ==
    IF EndsWith(str, suffix) THEN SubStr(str, 1, Len(str) - Len(suffix)) ELSE str

\* str.split(sep): cut at the leftmost occurrences of sep, left to right
RECURSIVE Split(_, _)
Split(str, sep) ==
    LET hits == {k \in 1..(Len(str) - Len(sep) + 1) : SubStr(str, k, k + Len(sep) - 1) = sep} IN
    IF hits = {} THEN <<str>>
    ELSE LET k == CHOOSE h \in hits : \A g \in hits : h <= g IN
         <<SubStr(str, 1, k - 1)>> \o Split(SubStr(str, k + Len(sep), Len(str)), sep)

\* str.strip()
Strip(str) ==
    LET inked == {k \in 1..Len(str) : str[k] \notin Whitespace} IN
    IF inked = {} THEN <<>>
    ELSE SubStr(str, CHOOSE a \in inked : \A b \in inked : a <= b,
                     CHOOSE a \in inked : \A b \in inked : a >= b)

\* str(n) for n >= 0
RECURSIVE Str(_)
Str(n) == IF n < 10 THEN <<Digits[n + 1]>> ELSE Str(n \div 10) \o <<Digits[(n % 10) + 1]>>

\* template_id = fp.name.removesuffix(SOLIDBENCH_QUERY_EXT)
TemplateId(name) == RemoveSuffix(name, SOLIDBENCH_QUERY_EXT)

\* list(query.strip() for query in text.split(SEP) if len(query.strip()) > 0)
RECURSIVE StripNonEmpty(_)
StripNonEmpty(fragments) ==
    IF fragments = <<>> THEN <<>>
    ELSE (IF Len(Strip(Head(fragments))) > 0 THEN <<Strip(Head(fragments))>> ELSE <<>>)
         \o StripNonEmpty(Tail(fragments))
RECURSIVE StripKeepBlank(_)
StripKeepBlank(fragments) ==
    IF fragments = <<>> THEN <<>>
    ELSE (IF Len(Head(fragments)) > 0 THEN <<Strip(Head(fragments))>> ELSE <<>>)
         \o StripKeepBlank(Tail(fragments))
QueriesKeepBlank(text) == StripKeepBlank(Split(text, SOLIDBENCH_QUERY_SEP))
Queries(text) == StripNonEmpty(Split(text, SOLIDBENCH_QUERY_SEP))

\* f"{template_id}-{query_id + 1}"
QueryId(template_id, query_id) == template_id \o <<"-">> \o Str(query_id + 1)

\* d[key] = value on a dict kept in insertion order
HasKey(d, key) == \E k \in 1..Len(d) : d[k].id = key
Lookup(d, key) == d[CHOOSE k \in 1..Len(d) : d[k].id = key].query
DictSet(d, key, value) ==
    IF HasKey(d, key)
    THEN [k \in 1..Len(d) |-> IF d[k].id = key THEN [id |-> key, query |-> value] ELSE d[k]]
    ELSE Append(d, [id |-> key, query |-> value])

\* for query_id in range(0, len(queries)):
\*     queries_by_id[f"{template_id}-{query_id + 1}"] = queries[query_id]
\* (query_id counts from 0; queries[query_id] is the model's qs[query_id + 1])
RECURSIVE StoreFrom(_, _, _, _)
StoreFrom(d, template_id, qs, query_id) ==
    IF query_id >= Len(qs) THEN d
    ELSE StoreFrom(DictSet(d, QueryId(template_id, query_id), qs[query_id + 1]),
                   template_id, qs, query_id + 1)
StoreBareSingle(d, template_id, qs) ==
    IF Len(qs) = 1 THEN DictSet(d, template_id, qs[1]) ELSE StoreFrom(d, template_id, qs, 0)
Store(d, template_id, qs) == StoreFrom(d, template_id, qs, 0)

\* The directory: two template files, one a dash-extended prefix of the other,
\* and a file without the template extension.
NAME_A == <<"a", ".", "s", "p", "a", "r", "q", "l">>
NAME_A1 == <<"a", "-", "1", ".", "s", "p", "a", "r", "q", "l">>
NAME_RQ == <<"a", ".", "r", "q">>
TemplateNames == {NAME_A, NAME_A1}
FileNames == TemplateNames \cup {NAME_RQ}
Alphabet == {"q", "\n"}

InitLoad ==
    /\ \E la \in 0..MaxChars :
         \E lb \in 0..(MaxChars - la) :
           \E ca \in [1..la -> Alphabet], cb \in [1..lb -> Alphabet] :
              directory = [f \in FileNames |->
                              IF f = NAME_A THEN ca ELSE IF f = NAME_A1 THEN cb ELSE <<"q">>]
    /\ pending = FileNames
    /\ queries_by_id = <<>>
    /\ loaded = <<>>
    /\ load_pc = "iterdir"
    /\ InitRunIdle
    /\ InitSumIdle

\* an iteration of `for fp in path.iterdir()` whose file has the extension
LoadTemplate ==
    /\ load_pc = "iterdir"
    /\ \E fp \in pending :
        /\ EndsWith(fp, SOLIDBENCH_QUERY_EXT)
        /\ LET template_id == TemplateId(fp)
               qs == Queries(directory[fp])
           IN /\ queries_by_id' = Store(queries_by_id, template_id, qs)
              /\ loaded' = Append(loaded, [name |-> fp, before |-> Len(queries_by_id),
                                           after |-> Len(queries_by_id')])
        /\ pending' = pending \ {fp}
    /\ UNCHANGED <<directory, load_pc>>
    /\ UNCHANGED <<runVars, sumVars>>

\* an iteration whose file lacks the extension
LoadSkip ==
    /\ load_pc = "iterdir"
    /\ \E fp \in pending :
        /\ ~EndsWith(fp, SOLIDBENCH_QUERY_EXT)
        /\ pending' = pending \ {fp}
    /\ UNCHANGED <<directory, queries_by_id, loaded, load_pc>>
    /\ UNCHANGED <<runVars, sumVars>>

\* info(f"Loaded ..."); return queries_by_id
LoadReturn ==
    /\ load_pc = "iterdir"
    /\ pending = {}
    /\ load_pc' = "returned"
    /\ UNCHANGED <<directory, pending, queries_by_id, loaded>>
    /\ UNCHANGED <<runVars, sumVars>>

NextLoad ==
    \/ LoadTemplate
    \/ LoadSkip
    \/ LoadReturn

SpecLoad == InitLoad /\ [][NextLoad]_vars

\* ------------------------------------------------- properties of load_queries
\* The fragments of a file that are non-empty after trimming, by position.
Fragments(name) == Split(directory[name], SOLIDBENCH_QUERY_SEP)
InkedAt(name) == {k \in 1..Len(Fragments(name)) : Strip(Fragments(name)[k]) /= <<>>}
UnitCount(name) == Cardinality(InkedAt(name))
\* the position of the n-th non-empty trimmed fragment
NthInked(name, n) ==
    CHOOSE k \in InkedAt(name) : Cardinality({j \in InkedAt(name) : j <= k}) = n
StemOf(name) == SubStr(name, 1, Len(name) - Len(SOLIDBENCH_QUERY_EXT))
ExpectedId(name, n) == StemOf(name) \o <<"-">> \o Str(n)
ExpectedIds(name) == {ExpectedId(name, n) : n \in 1..UnitCount(name)}
LoadedIds == {queries_by_id[k].id : k \in 1..Len(queries_by_id)}

\* C5: a template file with id T and k fragments that are non-empty after
\* trimming yields exactly the units T-1 .. T-k, T-n holding the n-th such
\* fragment in file order; empty fragments yield nothing and use no number;
\* files without the template extension yield nothing.
C5_UnitsPerTemplateFile ==
    load_pc = "returned" =>
        /\ \A name \in TemplateNames : \A n \in 1..UnitCount(name) :
              /\ HasKey(queries_by_id, ExpectedId(name, n))
              /\ Lookup(queries_by_id, ExpectedId(name, n))
                    = Strip(Fragments(name)[NthInked(name, n)])
        /\ LoadedIds = UNION {ExpectedIds(name) : name \in TemplateNames}
        /\ \A k \in 1..Len(queries_by_id) : queries_by_id[k].query /= <<>>

\* C5 witness: file a holds three fragments with a blank one before the last
\* and a trailing separator run; it yields a-1, a-2 with the last unit "q".
C5_Witness ==
    /\ load_pc = "returned"
    /\ Len(Fragments(NAME_A)) = 3 /\ UnitCount(NAME_A) = 2
    /\ Strip(Fragments(NAME_A)[2]) = <<>>
    /\ HasKey(queries_by_id, ExpectedId(NAME_A, 2))
    /\ ~HasKey(queries_by_id, ExpectedId(NAME_A, 3))

\* C6: with pairwise distinct template ids, no entry of the mapping is
\* overwritten: every file adds as many entries as it has units, and the size
\* of the mapping is the sum of the per-file unit counts.
C6_NoIdOverwritten ==
    /\ \A k \in 1..Len(loaded) :
          loaded[k].after - loaded[k].before = UnitCount(loaded[k].name)
    /\ load_pc = "returned" =>
          Len(queries_by_id) = UnitCount(NAME_A) + UnitCount(NAME_A1)

\* C6 witness: both a and a-1 hold units (ids a-1 and a-1-1 among them).
C6_Witness ==
    /\ load_pc = "returned"
    /\ UnitCount(NAME_A) >= 1 /\ UnitCount(NAME_A1) = 1
    /\ HasKey(queries_by_id, <<"a", "-", "1">>)
    /\ HasKey(queries_by_id, <<"a", "-", "1", "-", "1">>)

\* ===================================================== generate_summary_readme
MaxFiles == 4

META_SUFFIX == <<"-", "m", "e", "t", "a", ".", "j", "s", "o", "n">>

\* Python compares str by code point, character by character. CodeOrder lists
\* the characters of the model's file names by ascending code point.
CodeOrder == <<"-", ".", "0", "1", "2", "3", "4", "5", "6", "7", "8", "9",
               "A", "D", "E", "M", "R",
               "a", "c", "d", "e", "i", "j", "l", "m", "n", "o", "p", "q", "r",
               "s", "t", "v", "x", "y">>
Ord(c) == CHOOSE k \in 1..Len(CodeOrder) : CodeOrder[k] = c
StrLess(a, b) ==
    \E k \in 1..(Len(b)) :
        /\ \A j \in 1..(k - 1) : j <= Len(a) /\ a[j] = b[j]
        /\ Len(a) >= k - 1
        /\ (Len(a) = k - 1 \/ Ord(a[k]) < Ord(b[k]))

\* "-".join(parts)
RECURSIVE Join(_, _)
Join(sep, parts) ==
    IF Len(parts) = 0 THEN <<>>
    ELSE IF Len(parts) = 1 THEN parts[1]
    ELSE parts[1] \o sep \o Join(sep, Tail(parts))

\* if len(template) < 2: template = f"0{template}"
PadTemplateNot(template) == template
PadTemplate(template) == IF Len(template) < 2 THEN <<"0">> \o template ELSE template

\* generate_key(path): the unpacking into four names raises ValueError unless
\* the split gives exactly four parts
generate_key(name) ==
    IF ~EndsWith(name, META_SUFFIX) THEN Val(name)
    ELSE LET parts == Split(RemoveSuffix(name, META_SUFFIX), <<"-">>) IN
         IF Len(parts) /= 4 THEN Raise("ValueError")
         ELSE Val(Join(<<"-">>, <<parts[1], parts[2], PadTemplate(parts[3]), parts[4]>>))

\* sorted(names, key=generate_key): stable, ascending by key
InsertByKey(sorted, name) ==
    LET later == {k \in 1..Len(sorted) :
                    StrLess(generate_key(name).v, generate_key(sorted[k]).v)}
        at == IF later = {} THEN Len(sorted) + 1
              ELSE CHOOSE k \in later : \A j \in later : k <= j
    IN SubStr(sorted, 1, at - 1) \o <<name>> \o SubStr(sorted, at, Len(sorted))
RECURSIVE SortedByKey(_)
SortedByKey(names) ==
    IF names = <<>> THEN <<>>
    ELSE InsertByKey(SortedByKey(SubStr(names, 1, Len(names) - 1)), names[Len(names)])

\* File names a results directory can hold.
META_1 == <<"A", "-", "t", "y", "p", "e", "-", "1", "-", "1", "-", "m", "e", "t", "a", ".", "j", "s", "o", "n">>
META_2 == <<"A", "-", "t", "y", "p", "e", "-", "2", "-", "1", "-", "m", "e", "t", "a", ".", "j", "s", "o", "n">>
META_10 == <<"A", "-", "t", "y", "p", "e", "-", "1", "0", "-", "1", "-", "m", "e", "t", "a", ".", "j", "s", "o", "n">>
META_IC == <<"i", "n", "t", "e", "r", "a", "c", "t", "i", "v", "e", "-", "c", "o", "m", "p", "l", "e", "x", "-", "1", "-", "m", "e", "t", "a", ".", "j", "s", "o", "n">>
RESULT_1 == <<"A", "-", "t", "y", "p", "e", "-", "1", "-", "1", ".", "j", "s", "o", "n">>
QUERY_1 == <<"A", "-", "t", "y", "p", "e", "-", "1", "-", "1", ".", ".", "r", "q">>
README == <<"R", "E", "A", "D", "M", "E", ".", "m", "d">>
Candidates == {META_1, META_2, META_10, META_IC, RESULT_1, QUERY_1, README}

InitSummary ==
    /\ source \in {d \in SUBSET Candidates : Cardinality(d) <= MaxFiles}
    /\ listing = <<>>
    /\ ordered = <<>>
    /\ markdown_lines = <<>>
    /\ sum_pos = 0
    /\ sum_pc = "iterdir"
    /\ target = <<>>
    /\ InitRunIdle
    /\ InitLoadIdle

\* source.iterdir() yields the names in an order of the file system's choosing
SumIterdir ==
    /\ sum_pc = "iterdir"
    /\ \E order \in [1..Cardinality(source) -> source] :
        /\ \A a, b \in 1..Cardinality(source) : a /= b => order[a] /= order[b]
        /\ listing' = order
    /\ sum_pc' = "sorted"
    /\ UNCHANGED <<source, ordered, markdown_lines, sum_pos, target>>
    /\ UNCHANGED <<runVars, loadVars>>

\* sorted(..., key=generate_key): a key that raises ends the function
SumSorted ==
    /\ sum_pc = "sorted"
    /\ IF \E k \in 1..Len(listing) : generate_key(listing[k]).exc /= ""
       THEN /\ sum_pc' = "ValueError"
            /\ UNCHANGED ordered
       ELSE /\ ordered' = SortedByKey(listing)
            /\ sum_pc' = "for"
    /\ UNCHANGED <<source, listing, markdown_lines, sum_pos, target>>
    /\ UNCHANGED <<runVars, loadVars>>

\* an iteration over a metadata artifact: one row is appended (a row is
\* modelled by the id it shows)
SumRow ==
    /\ sum_pc = "for"
    /\ sum_pos < Len(ordered)
    /\ EndsWith(ordered[sum_pos + 1], META_SUFFIX)
    /\ markdown_lines' = Append(markdown_lines, RemoveSuffix(ordered[sum_pos + 1], META_SUFFIX))
    /\ sum_pos' = sum_pos + 1
    /\ UNCHANGED <<source, listing, ordered, sum_pc, target>>
    /\ UNCHANGED <<runVars, loadVars>>

\* an iteration over any other file
SumSkip ==
    /\ sum_pc = "for"
    /\ sum_pos < Len(ordered)
    /\ ~EndsWith(ordered[sum_pos + 1], META_SUFFIX)
    /\ sum_pos' = sum_pos + 1
    /\ UNCHANGED <<source, listing, ordered, markdown_lines, sum_pc, target>>
    /\ UNCHANGED <<runVars, loadVars>>

\* target_file.writelines(markdown_lines)
SumWrite ==
    /\ sum_pc = "for"
    /\ sum_pos = Len(ordered)
    /\ target' = <<markdown_lines>>
    /\ sum_pc' = "written"
    /\ UNCHANGED <<source, listing, ordered, markdown_lines, sum_pos>>
    /\ UNCHANGED <<runVars, loadVars>>

NextSummary ==
    \/ SumIterdir
    \/ SumSorted
    \/ SumRow
    \/ SumSkip
    \/ SumWrite

SpecSummary == InitSummary /\ [][NextSummary]_vars

\* ------------------------------------ properties of generate_summary_readme
MetaIds(dir) == {RemoveSuffix(name, META_SUFFIX) : name \in {f \in dir : EndsWith(f, META_SUFFIX)}}
RowsOf(lines) == {lines[k] : k \in 1..Len(lines)}
Components(rowid) == Split(rowid, <<"-">>)
DigitValue(c) == (CHOOSE k \in 1..10 : Digits[k] = c) - 1
IsShortNumber(str) ==
    /\ Len(str) \in {1, 2}
    /\ \A k \in 1..Len(str) : \E d \in 1..10 : Digits[d] = str[k]
NumberOf(str) ==
    IF Len(str) = 1 THEN DigitValue(str[1]) ELSE 10 * DigitValue(str[1]) + DigitValue(str[2])

\* C7: for every directory, also one holding metadata artifacts whose id does
\* not split into four components, generate_summary_readme completes and
\* writes exactly one row per metadata artifact and none for other files.
C7_SummaryCompletesForAnyId ==
    /\ sum_pc /= "ValueError"
    /\ sum_pc = "written" =>
          /\ Len(target[1]) = Cardinality(MetaIds(source))
          /\ RowsOf(target[1]) = MetaIds(source)

\* C8: rows whose ids have four components, agree on the first, second and
\* fourth, and have one- or two-digit numbers as the third, appear in
\* ascending numeric order of the third component; the table holds one row
\* per metadata artifact.
C8_RowsInNumericOrder ==
    sum_pc = "written" =>
        /\ Len(target[1]) = Cardinality(MetaIds(source))
        /\ RowsOf(target[1]) = MetaIds(source)
        /\ \A a, b \in 1..Len(target[1]) :
              LET ca == Components(target[1][a])
                  cb == Components(target[1][b])
              IN (/\ a < b
                  /\ Len(ca) = 4 /\ Len(cb) = 4
                  /\ ca[1] = cb[1] /\ ca[2] = cb[2] /\ ca[4] = cb[4]
                  /\ IsShortNumber(ca[3]) /\ IsShortNumber(cb[3]))
                 => NumberOf(ca[3]) <= NumberOf(cb[3])

\* C8 witness: the directory lists A-type-2-1, A-type-10-1, A-type-1-1 in
\* that order and the table shows A-type-1-1, A-type-2-1, A-type-10-1.
C8_Witness ==
    /\ sum_pc = "written"
    /\ listing = <<META_2, META_10, META_1>>
    /\ target = << <<<<"A", "-", "t", "y", "p", "e", "-", "1", "-", "1">>, <<"A", "-", "t", "y", "p", "e", "-", "2", "-", "1">>, <<"A", "-", "t", "y", "p", "e", "-", "1", "0", "-", "1">>>> >>

====
